---- MODULE Spec2Model ----
(***************************************************************************)
(* The two order-fetching clients of orders_server, client_async.py and    *)
(* client_threads.py: one fetch_item worker per item id, the gate that     *)
(* bounds the workers running at once (asyncio.Semaphore / the thread      *)
(* pool), the rate limiter of the async client, the retry loop, and the    *)
(* as_completed loop of run_reqs that builds the result rows.              *)
(*                                                                         *)
(* Time is counted in ticks, TicksPerSec to the second.  A sleep of d      *)
(* seconds may end once d * TicksPerSec ticks have passed, never before.   *)
(***************************************************************************)
EXTENDS Integers, Sequences, FiniteSets, TLC

\* Largest number of items a run is started with (num_items / num_reqs).
MaxN == 2
\* Clock resolution: ticks in one second.
TicksPerSec == 1
\* client_async.py:8, client_threads.py:9 (18 there; scaled to the item count).
MAX_RPS == 2
\* client_async.py:9 (50 there; scaled below the item count, so that the
\* semaphore can block).
MAX_CONCURRENT == 1
\* client_threads.py:10 (8 there; scaled so that the pool can be busy).
MAX_WORKERS == 1
\* Default of fetch_item's max_retries parameter.
max_retries == 3
\* Largest number of items of a run against a scripted upstream, and of a
\* run of the thread client that needs a second batch.
ScenarioN == 3

\* Python's None, and a value x that is not None.
None == <<>>
Some(x) == <<x>>

VARIABLES
    variant,     \* "async" (client_async.py) or "threads" (client_threads.py)
    num_items,   \* run_reqs' num_items / num_reqs
    mainPc,      \* where run_reqs is
    i,           \* client_threads.run_reqs: the batch loop's index
    mainTimer,   \* ticks left of run_reqs' time.sleep(1)
    pc,          \* per item: where its fetch_item is
    retries,     \* per item: fetch_item's retries
    timer,       \* per item: ticks left of its backoff sleep
    ret,         \* per item: what fetch_item returned
    free,        \* free slots of the semaphore / idle threads of the pool
    level,       \* AsyncLimiter's bucket level, in 1/TicksPerSec of a request
    sent,        \* requests sent in each of the last TicksPerSec ticks
    completed,   \* finished futures as_completed has not yet yielded
    results,     \* run_reqs' results: the order_id of each row
    requests,    \* per item: the calls of client.get / httpx.get so far
    upstream,    \* "any": the server answers as it likes; else a scenario
    loop         \* asyncio.run's event loop: "running", or "cancelling"
                 \* once it has stopped and asyncio.run has cancelled the
                 \* tasks that were left

vars == <<variant, num_items, mainPc, i, mainTimer, pc, retries, timer, ret,
          free, level, sent, completed, results, requests, upstream, loop>>

Items == 1..num_items

Min(a, b) == IF a < b THEN a ELSE b
Max(a, b) == IF a > b THEN a ELSE b

\* The elements of a list.
Range(q) == {q[k] : k \in DOMAIN q}

RECURSIVE SumSeq(_)
SumSeq(s) == IF s = <<>> THEN 0 ELSE Head(s) + SumSeq(Tail(s))

-----------------------------------------------------------------------------
(* The upstream's answers.                                                 *)

Absent == "absent"
\* Retry-After header values: absent, delay-seconds, or an HTTP-date.
RetryAfterHeaders == {Absent, "0", "1", "3", "Wed, 21 Oct 2015 07:28:00 GMT"}
StatusCodes == {200, 404, 429, 500, 503}

TransportError == [kind |-> "error", status |-> 0, retry_after |-> Absent]
HttpStatus(code, h) == [kind |-> "http", status |-> code, retry_after |-> h]

Outcomes ==
    {HttpStatus(code, Absent) : code \in StatusCodes}
      \cup {HttpStatus(429, h) : h \in RetryAfterHeaders}
      \cup {TransportError}

\* An upstream that numbers its orders one off.
make_order_model_off_by_one(item_id) == [order_id |-> item_id + 1]

\* main.py make_order_model: the body of a 200 carries order_id = item_id.
make_order_model(item_id) == [order_id |-> item_id]

\* The upstreams a run is tested against, by what they answer to the k-th
\* request for item w:
\*   "e2e"     item 1 is unknown (404 always), item 2 fails once with 500,
\*             every other request is answered 200;
\*   "down"    503 always;
\*   "flaky"   500 to the first two requests for an item, 200 from the third;
\*   "baddate" item 1 is throttled with an HTTP-date as Retry-After, every
\*             other request is answered 200.
Scenarios == {"e2e", "down", "flaky", "baddate"}

\* An upstream from which one item is missing and which fails once on
\* another item.
e2e(missing, failing, w, k) ==
    IF w = missing THEN HttpStatus(404, Absent)
    ELSE IF w = failing /\ k = 1 THEN HttpStatus(500, Absent)
    ELSE HttpStatus(200, Absent)

scripted(u, w, k) ==
    CASE u = "e2e" -> e2e(1, 2, w, k)
      [] u = "down" -> HttpStatus(503, Absent)
      [] u = "flaky" ->
           IF k <= 2 THEN HttpStatus(500, Absent) ELSE HttpStatus(200, Absent)
      [] u = "baddate" ->
           IF w = 1 THEN HttpStatus(429, "Wed, 21 Oct 2015 07:28:00 GMT")
           ELSE HttpStatus(200, Absent)

\* o is what client.get / httpx.get gives for the request item w is
\* waiting on.
answers(w, o) ==
    IF upstream = "any" THEN TRUE ELSE o = scripted(upstream, w, requests[w])

-----------------------------------------------------------------------------
(* fetch_item's handling of one answer.                                    *)

\* Python's int() on a header string: the number, or None where int()
\* raises ValueError.
int(s) ==
    CASE s = "0" -> Some(0)
      [] s = "1" -> Some(1)
      [] s = "3" -> Some(3)
      [] OTHER -> None

\* int(resp.headers.get("Retry-After", 1))
retry_after(o) == IF o.retry_after = Absent THEN Some(1) ELSE int(o.retry_after)

Is429(code) == code = 429
\* Only 500 itself taken for a server error.
Is5xx_only_500(code) == code = 500

Is5xx(code) == 500 <= code /\ code < 600
\* Only 400 itself taken for a client error.
Is4xx_only_400(code) == code = 400

Is4xx(code) == 400 <= code /\ code < 500

\* The if/elif chain and the except clause of fetch_item: what the worker
\* does with answer o.
\*   "sleep_then_count": sleep wait seconds, then retries += 1, continue
\*   "count_then_sleep": retries += 1, then sleep wait seconds
\*   "return_none": non-retryable, return without data
\*   "return_json": return resp.json()
\*   "raise": int() raises ValueError, which no except clause catches
classify(o) ==
    IF o.kind = "error"
    THEN [act |-> "count_then_sleep", wait |-> 1]
    ELSE IF Is429(o.status)
    THEN IF retry_after(o) = None
         THEN [act |-> "raise", wait |-> 0]
         ELSE [act |-> "sleep_then_count", wait |-> retry_after(o)[1]]
    ELSE IF Is5xx(o.status)
    THEN [act |-> "sleep_then_count", wait |-> 1]
    ELSE IF Is4xx(o.status)
    THEN [act |-> "return_none", wait |-> 0]
    ELSE [act |-> "return_json", wait |-> 0]

\* What fetch_item returns: data alone in the async client, the tuple
\* (item_id, status, data) in the thread client.
Returned(item_id, status, data) ==
    IF variant = "async"
    THEN [item_id |-> None, status |-> None, data |-> data]
    ELSE [item_id |-> item_id, status |-> status, data |-> data]

NotReturned == [item_id |-> None, status |-> None, data |-> None]

-----------------------------------------------------------------------------
(* The gates.                                                              *)

\* Semaphore(MAX_CONCURRENT) / ThreadPoolExecutor(MAX_WORKERS)
Gate == IF variant = "async" THEN MAX_CONCURRENT ELSE MAX_WORKERS

\* A gate that never closes.
locked_never == FALSE

\* asyncio.Semaphore.locked(); the pool has no idle thread
locked == free = 0

\* AsyncLimiter(MAX_RPS, 1): a leaky bucket of capacity MAX_RPS that leaks
\* MAX_RPS per second; one request fills TicksPerSec units of the level.
has_capacity == level + TicksPerSec <= MAX_RPS * TicksPerSec
leak(l) == Max(l - MAX_RPS, 0)

\* Positions at which fetch_item holds its slot of the gate.
Holding == {"started", "limiter", "requesting", "sleep_status", "sleep_exc"}
Terminal == {"Succeeded", "Failed", "Raised", "Cancelled"}

\* The window of the last second: one more request in the current tick
\* (the count saturates just above MAX_RPS).
CountSent(s) == [s EXCEPT ![1] = Min(@ + 1, MAX_RPS + 1)]

-----------------------------------------------------------------------------
\* run_reqs is entered: nothing is created yet.
Start ==
    /\ mainPc = "submit"
    /\ i = 0
    /\ mainTimer = 0
    /\ pc = [w \in Items |-> "new"]
    /\ retries = [w \in Items |-> 0]
    /\ timer = [w \in Items |-> 0]
    /\ ret = [w \in Items |-> NotReturned]
    /\ free = Gate
    /\ level = 0
    /\ sent = [k \in 1..TicksPerSec |-> 0]
    /\ completed = <<>>
    /\ results = <<>>
    /\ requests = [w \in Items |-> 0]
    /\ loop = "running"

\* Either client, run with up to MaxN items against a server that may give
\* any answer to any request.
Init ==
    /\ variant \in {"async", "threads"}
    /\ num_items \in 0..MaxN
    /\ upstream = "any"
    /\ Start

\* Either client, run with up to ScenarioN items against a scripted
\* upstream.
ScriptInit ==
    /\ variant \in {"async", "threads"}
    /\ num_items \in 0..ScenarioN
    /\ upstream \in Scenarios
    /\ Start

\* The thread client run with up to ScenarioN items, which takes more than
\* one batch, and the async client run with up to two items, against any
\* server.
BatchInit ==
    /\ \/ variant = "threads" /\ num_items \in 0..ScenarioN
       \/ variant = "async" /\ num_items \in 0..2
    /\ upstream = "any"
    /\ Start

\* The items of the tasks / futures run_reqs creates next: all of them in
\* the async client, item_ids[i:i + MAX_RPS] in the thread client.
batch ==
    IF variant = "async" THEN Items
    ELSE {w \in Items : i < w /\ w <= i + MAX_RPS}


\* fetch_item of w can be run as long as the event loop runs.  After
\* run_reqs has been left by an exception the loop still runs for the rest
\* of the iteration it is in and one more (the callback that stops it is
\* only scheduled then); how many wake-ups of the tasks that makes is left
\* open.  Once asyncio.run has cancelled the tasks no task runs but to end.
Runnable(w) == loop = "running"

\* A slot that is not given back when fetch_item is left by an exception.
Leave_keeps_slot_on_raise(w, p, r, f) ==
    /\ pc' = [pc EXCEPT ![w] = p]
    /\ ret' = [ret EXCEPT ![w] = r]
    /\ free' = IF p = "Raised" THEN f ELSE f + 1
    /\ completed' = Append(completed, w)
    /\ UNCHANGED <<sent, requests>>

\* fetch_item leaves its function body from position p with return value r
\* (or an exception): the slot goes back to the gate (the end of "async with
\* semaphore" / the pool thread is idle again) and the future is done.
Leave(w, p, r, f) ==
    /\ pc' = [pc EXCEPT ![w] = p]
    /\ ret' = [ret EXCEPT ![w] = r]
    /\ free' = f + 1
    /\ completed' = Append(completed, w)
    /\ UNCHANGED <<sent, requests>>

\* The while test taken as "retries < max_retries - 1": one request fewer.
LoopHead_one_less(w, r, f) ==
    IF r < max_retries - 1
    THEN /\ pc' = [pc EXCEPT ![w] = IF variant = "async" THEN "limiter" ELSE "requesting"]
         /\ sent' = IF variant = "async" THEN sent ELSE CountSent(sent)
         /\ requests' = IF variant = "async" THEN requests
                         ELSE [requests EXCEPT ![w] = @ + 1]
         /\ free' = f
         /\ UNCHANGED <<ret, completed>>
    ELSE Leave(w, "Failed", Returned(w, None, None), f)

\* The while test taken as "retries <= max_retries": one more request.
LoopHead_one_more(w, r, f) ==
    IF r <= max_retries
    THEN /\ pc' = [pc EXCEPT ![w] = IF variant = "async" THEN "limiter" ELSE "requesting"]
         /\ sent' = IF variant = "async" THEN sent ELSE CountSent(sent)
         /\ requests' = IF variant = "async" THEN requests
                         ELSE [requests EXCEPT ![w] = @ + 1]
         /\ free' = f
         /\ UNCHANGED <<ret, completed>>
    ELSE Leave(w, "Failed", Returned(w, None, None), f)

\* "while retries < max_retries" with retries = r, slot held, f slots free.
\* Async client: on to "async with limiter".  Thread client: httpx.get is
\* called at once.  Loop over: "failed after max_retries retries".
LoopHead(w, r, f) ==
    IF r < max_retries
    THEN /\ pc' = [pc EXCEPT ![w] = IF variant = "async" THEN "limiter" ELSE "requesting"]
         /\ sent' = IF variant = "async" THEN sent ELSE CountSent(sent)
         /\ requests' = IF variant = "async" THEN requests
                         ELSE [requests EXCEPT ![w] = @ + 1]
         /\ free' = f
         /\ UNCHANGED <<ret, completed>>
    ELSE Leave(w, "Failed", Returned(w, None, None), f)

\* async: the task enters "async with semaphore" and goes on to the while
\* test.  threads: an idle pool thread takes the oldest work item of the
\* queue; its call of fetch_item is a step of its own.
acquire(w) ==
    /\ pc[w] = "pending"
    /\ Runnable(w)
    /\ ~locked
    /\ IF variant = "async"
       THEN LoopHead(w, retries[w], free - 1)
       ELSE /\ \A v \in Items : pc[v] = "pending" => w <= v
            /\ pc' = [pc EXCEPT ![w] = "started"]
            /\ free' = free - 1
            /\ UNCHANGED <<ret, completed, sent, requests>>
    /\ UNCHANGED <<variant, num_items, mainPc, i, mainTimer, retries, timer,
                   level, results, upstream, loop>>

\* threads: the pool thread that took item w runs fetch_item(w) from its
\* first line to the while test and httpx.get.
fetch_item(w) ==
    /\ pc[w] = "started"
    /\ LoopHead(w, retries[w], free)
    /\ UNCHANGED <<variant, num_items, mainPc, i, mainTimer, retries, timer,
                   level, results, upstream, loop>>

\* async: "async with limiter" admits the task and client.get is called
\* (on a client that run_reqs is closing, see request_raises).
request(w) ==
    /\ pc[w] = "limiter"
    /\ Runnable(w)
    /\ has_capacity
    /\ level' = level + TicksPerSec
    /\ pc' = [pc EXCEPT ![w] = "requesting"]
    /\ sent' = CountSent(sent)
    /\ requests' = [requests EXCEPT ![w] = @ + 1]
    /\ UNCHANGED <<variant, num_items, mainPc, i, mainTimer, retries, timer,
                   ret, free, completed, results, upstream, loop>>

\* async: "async with limiter" admits the task, and client.get is called
\* on the client that the end of "async with AsyncClient()" has closed: it
\* raises RuntimeError, which fetch_item does not catch.
request_raises(w) ==
    /\ pc[w] = "limiter"
    /\ mainPc \in {"closing", "aborted"}
    /\ Runnable(w)
    /\ has_capacity
    /\ level' = level + TicksPerSec
    /\ Leave(w, "Raised", NotReturned, free)
    /\ UNCHANGED <<variant, num_items, mainPc, i, mainTimer, retries, timer,
                   results, upstream, loop>>

\* The answer o to the request of w arrives and fetch_item acts on it.
response(w, o) ==
    /\ pc[w] = "requesting"
    /\ Runnable(w)
    /\ answers(w, o)
    /\ LET c == classify(o) IN
       CASE c.act = "return_json" ->
              /\ Leave(w, "Succeeded",
                       Returned(w, Some(o.status), Some(make_order_model(w))), free)
              /\ UNCHANGED <<retries, timer>>
         [] c.act = "return_none" ->
              /\ Leave(w, "Failed", Returned(w, Some(o.status), None), free)
              /\ UNCHANGED <<retries, timer>>
         [] c.act = "raise" ->
              /\ Leave(w, "Raised", NotReturned, free)
              /\ UNCHANGED <<retries, timer>>
         [] c.act = "sleep_then_count" ->
              /\ pc' = [pc EXCEPT ![w] = "sleep_status"]
              /\ timer' = [timer EXCEPT ![w] = c.wait * TicksPerSec]
              /\ UNCHANGED <<retries, ret, free, completed, sent, requests>>
         [] c.act = "count_then_sleep" ->
              /\ retries' = [retries EXCEPT ![w] = @ + 1]
              /\ pc' = [pc EXCEPT ![w] = "sleep_exc"]
              /\ timer' = [timer EXCEPT ![w] = c.wait * TicksPerSec]
              /\ UNCHANGED <<ret, free, completed, sent, requests>>
    /\ UNCHANGED <<variant, num_items, mainPc, i, mainTimer, level, results,
                   upstream, loop>>

\* The backoff sleep of w is over: retries += 1 where the sleep came first,
\* then back to the while test.
wake(w) ==
    /\ pc[w] \in {"sleep_status", "sleep_exc"}
    /\ Runnable(w)
    /\ timer[w] = 0
    /\ LET r == IF pc[w] = "sleep_status" THEN retries[w] + 1 ELSE retries[w] IN
       /\ retries' = [retries EXCEPT ![w] = r]
       /\ LoopHead(w, r, free)
    /\ UNCHANGED <<variant, num_items, mainPc, i, mainTimer, timer, level, results,
                   upstream, loop>>

-----------------------------------------------------------------------------
(* run_reqs.                                                               *)

\* The least of a set of item ids.
Lowest(S) == CHOOSE v \in S : \A u \in S : v <= u

\* The items of the batch that are not yet handed to the pool.
Unsubmitted == {w \in batch : pc[w] = "new"}

\* async: the coroutines are created and as_completed schedules them all.
\* threads: one executor.submit of the list comprehension, for the next
\* item of the batch; the pool's threads run meanwhile.  After the last
\* one run_reqs goes on to as_completed.
submit ==
    /\ mainPc = "submit"
    /\ batch # {}
    /\ IF variant = "async"
       THEN /\ pc' = [w \in Items |-> IF w \in batch THEN "pending" ELSE pc[w]]
            /\ mainPc' = "collect"
       ELSE /\ pc' = [pc EXCEPT ![Lowest(Unsubmitted)] = "pending"]
            /\ mainPc' = IF Unsubmitted = {Lowest(Unsubmitted)}
                         THEN "as_completed" ELSE "submit"
    /\ UNCHANGED <<variant, num_items, i, mainTimer, retries, timer, ret, free,
                   level, sent, completed, results,
                   requests, upstream, loop>>

\* The orders in which the elements of the list q can be yielded.
Perms(q) ==
    {p \in [1..Len(q) -> Range(q)] : \A k, l \in 1..Len(q) : p[k] = p[l] => k = l}

\* threads: concurrent.futures.as_completed is entered.  The futures that
\* are finished by now are yielded first, in the iteration order of a set;
\* those that finish later are yielded in the order in which they finish.
as_completed ==
    /\ mainPc = "as_completed"
    /\ completed' \in Perms(completed)
    /\ mainPc' = "collect"
    /\ UNCHANGED <<variant, num_items, i, mainTimer, pc, retries, timer, ret,
                   free, level, sent, results, requests, upstream, loop>>

\* The thread client's test in both clients, though the async fetch_item
\* returns no status.
keeps_by_status(r) == r.status = Some(200)

\* "if data:" in the async client, "if status == 200:" in the thread client.
keeps(r) == IF variant = "async" THEN r.data # None ELSE r.status = Some(200)

\* row = {field: data.get(field) for field in FIELDS}, by its order_id.
row(data) == data[1].order_id

\* A dropped item's future taken for one that raised.
raised_or_dropped(w) == pc[w] \in {"Raised", "Failed"}

\* "await future" / future.result() raises what fetch_item raised.
raised(w) == pc[w] = "Raised"

\* as_completed yields the next finished future, which returned.
collect ==
    /\ mainPc = "collect"
    /\ completed # <<>>
    /\ ~raised(Head(completed))
    /\ completed' = Tail(completed)
    /\ results' = IF keeps(ret[Head(completed)])
                  THEN Append(results, row(ret[Head(completed)].data))
                  ELSE results
    /\ UNCHANGED <<variant, num_items, mainPc, i, mainTimer, pc, retries,
                   timer, ret, free, level, sent,
                   requests, upstream, loop>>

\* as_completed yields a future that raised: "await future" /
\* future.result() raises in run_reqs, and the exception leaves the loop
\* over the futures for the end of the "with" block it is in.
\* async: "async with AsyncClient()" awaits the client's __aexit__, and
\* the event loop goes on running the tasks meanwhile.
\* threads: the "with ThreadPoolExecutor" block waits for the submitted
\* items first.
collect_raises ==
    /\ mainPc = "collect"
    /\ completed # <<>>
    /\ raised(Head(completed))
    /\ completed' = Tail(completed)
    /\ mainPc' = IF variant = "async" THEN "closing" ELSE "shutdown"
    /\ UNCHANGED <<variant, num_items, i, mainTimer, pc, retries, timer, ret,
                   free, level, sent, results, requests, upstream, loop>>

\* async: the client's __aexit__ is over and the exception leaves run_reqs
\* and main.  The event loop is not stopped yet, and the tasks that are left
\* live on until asyncio.run cancels them.
aexit ==
    /\ variant = "async"
    /\ mainPc = "closing"
    /\ mainPc' = "aborted"
    /\ UNCHANGED <<variant, num_items, i, mainTimer, pc, retries, timer, ret,
                   free, level, sent, completed, results, requests, upstream,
                   loop>>

\* async: the loop has stopped, an iteration or two after main was left,
\* and asyncio.run calls cancel() on every task that is left.
cancel_all_tasks ==
    /\ variant = "async"
    /\ mainPc = "aborted"
    /\ loop = "running"
    /\ loop' = "cancelling"
    /\ UNCHANGED <<variant, num_items, mainPc, i, mainTimer, pc, retries, timer,
                   ret, free, level, sent, completed, results, requests,
                   upstream>>

\* async: CancelledError is raised in task w at its await; a task inside
\* "async with semaphore" gives its slot back, and the task is done: a
\* finished future that as_completed has not yielded.
cancel(w) ==
    /\ loop = "cancelling"
    /\ pc[w] \notin Terminal
    /\ pc' = [pc EXCEPT ![w] = "Cancelled"]
    /\ timer' = [timer EXCEPT ![w] = 0]
    /\ free' = IF pc[w] \in Holding THEN free + 1 ELSE free
    /\ completed' = Append(completed, w)
    /\ UNCHANGED <<variant, num_items, mainPc, i, mainTimer, retries, ret,
                   level, sent, results, requests, upstream, loop>>

\* The start of a wait for only the first future of the batch.
AllCollected_first_done == completed = <<>> /\ \E w \in batch : pc[w] \in Terminal

\* Every future of the batch has been yielded.
AllCollected == completed = <<>> /\ \A w \in batch : pc[w] \in Terminal

\* threads: the as_completed loop of the batch is over, time.sleep(1).
sleep_after_batch ==
    /\ variant = "threads"
    /\ mainPc = "collect"
    /\ AllCollected
    /\ mainPc' = "sleep"
    /\ mainTimer' = TicksPerSec
    /\ UNCHANGED <<variant, num_items, i, pc, retries, timer, ret, free, level,
                   sent, completed, results,
                   requests, upstream, loop>>

\* threads: the sleep is over, the for loop goes on to the next batch.
next_batch ==
    /\ mainPc = "sleep"
    /\ mainTimer = 0
    /\ i' = i + MAX_RPS
    /\ mainPc' = "submit"
    /\ UNCHANGED <<variant, num_items, mainTimer, pc, retries, timer, ret, free,
                   level, sent, completed, results,
                   requests, upstream, loop>>

\* "return results": no batch is left (threads; either client with no
\* item), or every task has been collected (async).
return_results ==
    /\ \/ mainPc = "submit" /\ batch = {}
       \/ variant = "async" /\ mainPc = "collect" /\ AllCollected
    /\ mainPc' = "returned"
    /\ UNCHANGED <<variant, num_items, i, mainTimer, pc, retries, timer, ret,
                   free, level, sent, completed, results,
                   requests, upstream, loop>>

\* threads: the pool's shutdown(wait=True) is over, the exception goes on.
shutdown_done ==
    /\ mainPc = "shutdown"
    /\ \A w \in batch : pc[w] \in Terminal
    /\ mainPc' = "aborted"
    /\ UNCHANGED <<variant, num_items, i, mainTimer, pc, retries, timer, ret,
                   free, level, sent, completed, results,
                   requests, upstream, loop>>

-----------------------------------------------------------------------------
\* One tick of the clock: the sleeps get shorter, the bucket leaks, the
\* window of the last second moves on.
tick ==
    /\ timer' = [w \in Items |-> Max(timer[w] - 1, 0)]
    /\ mainTimer' = Max(mainTimer - 1, 0)
    /\ level' = leak(level)
    /\ sent' = <<0>> \o SubSeq(sent, 1, TicksPerSec - 1)
    /\ UNCHANGED <<variant, num_items, mainPc, i, pc, retries, ret, free,
                   completed, results,
                   requests, upstream, loop>>

Next ==
    \/ \E w \in Items : acquire(w)
    \/ \E w \in Items : fetch_item(w)
    \/ \E w \in Items : request(w)
    \/ \E w \in Items : request_raises(w)
    \/ \E w \in Items : \E o \in Outcomes : response(w, o)
    \/ \E w \in Items : wake(w)
    \/ submit
    \/ as_completed
    \/ collect
    \/ collect_raises
    \/ aexit
    \/ cancel_all_tasks
    \/ \E w \in Items : cancel(w)
    \/ sleep_after_batch
    \/ next_batch
    \/ return_results
    \/ shutdown_done
    \/ tick

Spec == Init /\ [][Next]_vars

\* The event loop and the operating system run every task and thread that
\* can run, the clock goes on, and every request is answered or times out.
Fairness ==
    /\ \A w \in 1..Max(MaxN, ScenarioN) :
         /\ WF_vars(w \in Items /\ acquire(w))
         /\ WF_vars(w \in Items /\ fetch_item(w))
         /\ WF_vars(w \in Items /\ request(w))
         /\ WF_vars(w \in Items /\ request_raises(w))
         /\ WF_vars(w \in Items /\ \E o \in Outcomes : response(w, o))
         /\ WF_vars(w \in Items /\ wake(w))
         /\ WF_vars(w \in Items /\ cancel(w))
    /\ WF_vars(submit)
    /\ WF_vars(as_completed)
    /\ WF_vars(cancel_all_tasks)
    /\ WF_vars(collect)
    /\ WF_vars(collect_raises)
    /\ WF_vars(aexit)
    /\ WF_vars(sleep_after_batch)
    /\ WF_vars(next_batch)
    /\ WF_vars(return_results)
    /\ WF_vars(shutdown_done)
    /\ WF_vars(tick)

FairSpec == Spec /\ Fairness

\* The runs against the scripted upstreams, fairly scheduled.
ScriptSpec == ScriptInit /\ [][Next]_vars /\ Fairness

\* The runs of more than one batch.
BatchSpec == BatchInit /\ [][Next]_vars

-----------------------------------------------------------------------------
(* Claims.                                                                 *)

InFlight == {w \in Items : pc[w] = "requesting"}
Waiting == {w \in Items : pc[w] \in {"sleep_status", "sleep_exc"}}
Holders == {w \in Items : pc[w] \in Holding}

\* C1: in every reachable state, in both clients, the number of requests
\* issued and not yet answered is at most the gate's size (MAX_CONCURRENT in
\* the async client, MAX_WORKERS in the thread client).
C1_InFlightAtMostGate == Cardinality(InFlight) <= Gate

\* The gate is full of in-flight requests while another worker is kept out.
C1_Witness ==
    /\ Cardinality(InFlight) = Gate
    /\ \E w \in Items : pc[w] = "pending"

\* C2: in any window of one second, the requests sent to the upstream
\* (first attempts and retries of all workers) number at most MAX_RPS.
C2_AtMostRpsPerSecond == SumSeq(sent) <= MAX_RPS

\* C3: a worker waiting out a backoff holds no slot of the gate: while
\* some worker waits, the slots in use are those of the workers that are
\* being admitted or have a request in flight, and no worker is kept out of
\* a gate that a waiting worker fills.
C3_NoSlotHeldWhileWaiting ==
    Waiting # {} =>
        /\ Gate - free = Cardinality({w \in Items : pc[w] \in {"limiter", "requesting"}})
        /\ ~(locked /\ \E w \in Items : pc[w] = "pending")

\* C4: a worker gives its slot back exactly once on every way out of
\* fetch_item (success, 4xx, retry budget spent, exception): the free slots
\* and the workers inside the gate always add up to the gate's size, so with
\* every worker ended all slots are free again.
C4_SlotReleasedOnce ==
    /\ free + Cardinality(Holders) = Gate
    /\ (\A w \in Items : pc[w] \in Terminal) => free = Gate

\* Every worker has ended, one by an exception and one with its retry
\* budget spent, and every slot is free.
C4_Witness ==
    /\ num_items = MaxN
    /\ \A w \in Items : pc[w] \in Terminal
    /\ \E w \in Items : pc[w] = "Raised"
    /\ \E w \in Items : pc[w] = "Failed" /\ retries[w] = max_retries
    /\ free = Gate

Rows(w) == {k \in DOMAIN results : results[k] = w}
Permanent(w) == pc[w] = "Failed" /\ retries[w] < max_retries
Exhausted(w) == pc[w] = "Failed" /\ retries[w] = max_retries

\* C5: under fair scheduling, with every request answered or timed out,
\* every worker ends Succeeded or Failed whatever answers it gets, and the
\* run completes with all items ended.
C5_RunCompletes ==
    <>(mainPc = "returned" /\ \A w \in Items : pc[w] \in {"Succeeded", "Failed"})

\* C6: the rows run_reqs has collected are at most num_items, their
\* order_id values are pairwise distinct and in 1..num_items, and none
\* belongs to an item whose worker ended by a permanent failure or by
\* spending its retry budget.
C6_RowsDistinctInRange ==
    /\ Len(results) <= num_items
    /\ \A k \in DOMAIN results : results[k] \in 1..num_items
    /\ \A k, l \in DOMAIN results : results[k] = results[l] => k = l
    /\ \A w \in Items : (Permanent(w) \/ Exhausted(w)) => w \notin Range(results)

\* run_reqs has returned the row of the last item, and an item that
\* failed for good has none.
C6_Witness ==
    /\ mainPc = "returned"
    /\ num_items = MaxN
    /\ num_items \in Range(results)
    /\ \E w \in Items : Permanent(w)

\* C7: every item whose worker ended Succeeded has exactly one row once
\* as_completed has yielded its future, and so in what run_reqs returns,
\* in both clients and for any completion order.
C7_SucceededHasOneRow ==
    mainPc \in {"collect", "sleep", "submit", "returned"} =>
        \A w \in Items :
            (pc[w] = "Succeeded" /\ w \notin Range(completed)) =>
                Cardinality(Rows(w)) = 1

\* run_reqs has returned with the rows of items that finished out of
\* input order.
C7_Witness ==
    /\ mainPc = "returned"
    /\ Len(results) = num_items
    /\ \E k \in DOMAIN results : k + 1 \in DOMAIN results /\ results[k] > results[k + 1]

\* C8: a permanent failure or a spent retry budget ends only that item's
\* worker: run_reqs is never left early and no worker is cancelled unless
\* some fetch_item raised, and a run that returns has every item ended
\* Succeeded or Failed, with a row for every one that succeeded.
C8_DropsDoNotAbort ==
    /\ mainPc \in {"closing", "shutdown", "aborted"} =>
           \E w \in Items : pc[w] = "Raised"
    /\ (\E w \in Items : pc[w] = "Cancelled") => \E w \in Items : pc[w] = "Raised"
    /\ mainPc = "returned" =>
           \A w \in Items :
               /\ pc[w] \in {"Succeeded", "Failed"}
               /\ pc[w] = "Succeeded" => w \in Range(results)

\* A run that returned: the first item spent its retry budget, and the
\* row of an item after it is there.
C8_Witness ==
    /\ mainPc = "returned"
    /\ num_items > 1
    /\ Exhausted(1)
    /\ \E w \in Items : pc[w] = "Succeeded" /\ w \in Range(results)

\* The reference RetryPolicy on the five answers of the claim, as the
\* worker's state right after the answer.
Accepted(w) == pc'[w] = "Succeeded"
FailedPermanently(w) == pc'[w] = "Failed" /\ retries'[w] = retries[w]
WaitsAndRetries(w, d) ==
    /\ pc'[w] \in {"sleep_status", "sleep_exc"}
    /\ timer'[w] = d * TicksPerSec

\* C9: fetch_item treats 200 as accepted, 404 as a permanent failure, 429
\* with Retry-After 3 as a wait of 3 seconds and a retry, 503 as a wait of
\* 1 second and a retry, and a transport error as a wait of 1 second and a
\* retry.
C9_ClassifyAgrees ==
    [][\A w \in Items :
         /\ response(w, HttpStatus(200, Absent)) => Accepted(w)
         /\ response(w, HttpStatus(404, Absent)) => FailedPermanently(w)
         /\ response(w, HttpStatus(429, "3")) => WaitsAndRetries(w, 3)
         /\ response(w, HttpStatus(503, Absent)) => WaitsAndRetries(w, 1)
         /\ response(w, TransportError) => WaitsAndRetries(w, 1)]_vars

\* A worker that waited out a transport error and a 503 has just been
\* told to retry after 3 seconds, and another worker was accepted.
C9_Witness ==
    /\ \E w \in Items :
         /\ pc[w] = "sleep_status"
         /\ timer[w] = 3 * TicksPerSec
         /\ retries[w] = 2
    /\ \E w \in Items : pc[w] = "Succeeded"

\* The wait the RetryPolicy gives a 429: the header's when it is present
\* and a number, 1 second otherwise.
RetryAfterOrDefault(h) ==
    CASE h = "0" -> 0
      [] h = "1" -> 1
      [] h = "3" -> 3
      [] OTHER -> 1

\* C10: on a 429 the worker waits the Retry-After header's duration when
\* the header is present and parseable and 1 second otherwise (absent or
\* not a number), and in both cases it waits and retries: the answer never
\* ends the worker.
C10_RetryAfterOrOneSecond ==
    [][\A w \in Items : \A h \in RetryAfterHeaders :
         response(w, HttpStatus(429, h)) =>
             WaitsAndRetries(w, RetryAfterOrDefault(h))]_vars

\* C11: a 4xx answer other than 429 (404 here) drops the item at once: the
\* worker is Failed in the very step that takes the answer, with no backoff
\* sleep and with its retry counter unchanged, whatever the counter is, and
\* a Failed worker stays Failed and sends no further request.
C11_ClientErrorDropsAtOnce ==
    [][\A w \in Items :
         /\ response(w, HttpStatus(404, Absent)) =>
               /\ pc'[w] = "Failed"
               /\ retries'[w] = retries[w]
               /\ timer'[w] = timer[w]
               /\ requests'[w] = requests[w]
         /\ pc[w] = "Failed" =>
               /\ pc'[w] = "Failed"
               /\ requests'[w] = requests[w]]_vars

\* One item was dropped by a 404 to its first request, another by a 404 to
\* its last request, after two retries.
C11_Witness ==
    /\ \E w \in Items : Permanent(w) /\ requests[w] = 1 /\ retries[w] = 0
    /\ \E w \in Items :
         Permanent(w) /\ requests[w] = max_retries /\ retries[w] = max_retries - 1

\* C12: whatever the upstream answers, no worker sends more than
\* max_retries requests (the claim's max_attempts, 3 by default), so a run
\* of num_items items sends at most num_items * max_retries requests.
C12_RequestsAtMostBudget ==
    /\ \A w \in Items : requests[w] <= max_retries
    /\ SumSeq(requests) <= num_items * max_retries

\* Every item of a full run has used its whole budget and is finished.
C12_Witness ==
    /\ num_items = MaxN
    /\ \A w \in Items : pc[w] \in Terminal /\ requests[w] = max_retries
    /\ SumSeq(requests) = num_items * max_retries

\* C13: against an upstream that answers 503 to every request, every worker
\* ends Failed having sent exactly max_retries requests, never more and, once
\* finished, never fewer; no row is ever written, and the run returns.
C13_AlwaysDownFailsAfterBudget ==
    /\ [](upstream = "down" =>
            /\ results = <<>>
            /\ \A w \in Items :
                 /\ requests[w] <= max_retries
                 /\ pc[w] \in Terminal =>
                       pc[w] = "Failed" /\ requests[w] = max_retries)
    /\ <>(upstream = "down" =>
            /\ mainPc = "returned"
            /\ \A w \in Items : pc[w] = "Failed")

\* A full run against the upstream that is down has returned.
C13_Witness ==
    /\ upstream = "down"
    /\ num_items = ScenarioN
    /\ mainPc = "returned"
    /\ \A w \in Items : Exhausted(w) /\ requests[w] = max_retries

\* C14: with max_retries = 3, against an upstream that answers 500 to the
\* first two requests for an item and 200 to the third, every worker ends
\* Succeeded with its third request, returning that answer's record, and
\* the run returns.
C14_ThirdAnswerAccepted ==
    /\ [](upstream = "flaky" =>
            \A w \in Items :
               pc[w] \in Terminal =>
                  /\ pc[w] = "Succeeded"
                  /\ requests[w] = 3
                  /\ ret[w].data = Some(make_order_model(w)))
    /\ <>(upstream = "flaky" =>
            /\ mainPc = "returned"
            /\ \A w \in Items : pc[w] = "Succeeded")

\* A full run against the upstream that fails twice has returned every row.
C14_Witness ==
    /\ upstream = "flaky"
    /\ num_items = ScenarioN
    /\ mainPc = "returned"
    /\ Len(results) = num_items
    /\ \A w \in Items : pc[w] = "Succeeded" /\ retries[w] = 2

\* C15: a worker makes max_retries tries beyond its first request: an item
\* is dropped for exhaustion only after its request number 1 + max_retries
\* (the fourth, by default) has failed.
C15_FourthRequestBeforeDrop ==
    \A w \in Items : Exhausted(w) => requests[w] = 1 + max_retries

\* C17: in both clients no request is sent without an admission by the
\* rate limiter made for that very request: the step that sends a request
\* of a worker is the step in which the limiter admits it, filling the
\* bucket by one request.
C17_EveryRequestAdmitted ==
    [][\A w \in Items :
         requests'[w] = requests[w] + 1 => level' = level + TicksPerSec]_vars

\* The batch of item w in the thread client: item_ids[i:i + MAX_RPS] for
\* i = 0, MAX_RPS, 2 * MAX_RPS, ...
BatchOf(w) == (w - 1) \div MAX_RPS
Active(w) == pc[w] \notin Terminal \cup {"new"}

\* C19: in the thread client batches are strict barriers.  In every state
\* an item of a later batch has been handed to the pool only if every item
\* of the earlier batches is finished, so the items under way belong to one
\* batch, and the rows of an earlier batch precede those of a later one.
\* In every step, run_reqs starts its sleep of one second only with the
\* whole batch finished, leaves it only when the second is over, and hands
\* out the next batch only after that sleep.
C19_BatchesAreBarriers ==
    /\ [](variant = "threads" =>
            /\ \A v, w \in Items :
                 /\ BatchOf(v) < BatchOf(w) /\ pc[w] # "new" => pc[v] \in Terminal
                 /\ Active(v) /\ Active(w) => BatchOf(v) = BatchOf(w)
            /\ \A k, l \in 1..Len(results) :
                 k < l => BatchOf(results[k]) <= BatchOf(results[l]))
    /\ [][variant = "threads" =>
            /\ mainPc # "sleep" /\ mainPc' = "sleep" =>
                  /\ mainTimer' = TicksPerSec
                  /\ \A w \in Items : ~Active(w)
            /\ mainTimer' >= mainTimer - 1
            /\ mainPc = "sleep" /\ mainPc' # "sleep" => mainTimer = 0
            /\ mainPc # "submit" /\ mainPc' = "submit" => mainPc = "sleep"
            /\ \A w \in Items :
                 pc[w] = "new" /\ pc'[w] # "new" => mainPc = "submit"]_vars

\* The thread client has returned rows of two batches, having dropped an
\* item of the first batch after its retries.
C19_Witness ==
    /\ variant = "threads"
    /\ mainPc = "returned"
    /\ \E v \in Items : BatchOf(v) = 0 /\ Exhausted(v)
    /\ \E k, l \in 1..Len(results) : BatchOf(results[k]) < BatchOf(results[l])

\* Some worker can take a step of its own: enter the gate, start its
\* fetch_item, be admitted by the limiter, get the answer to its request,
\* or end its backoff.
WorkerCanStep ==
    \E w \in Items :
       \/ ENABLED acquire(w)
       \/ ENABLED fetch_item(w)
       \/ ENABLED request(w)
       \/ ENABLED request_raises(w)
       \/ ENABLED (\E o \in Outcomes : response(w, o))
       \/ ENABLED wake(w)

\* A timer is running: the clock's next tick shortens a backoff sleep or
\* leaks the limiter's bucket.
TimerCanStep == ENABLED (tick /\ <<timer, level>>' # <<timer, level>>)

====
